---- MODULE Spec2Model ----
(***************************************************************************)
(* Model of the route handlers of the telegraf dashboard running against    *)
(* the telemetry store the agents append to: /api/stats                     *)
(* (src/src/app/api/stats/route.ts, the paginated variant with the summary  *)
(* query, and its two earlier variants) and /api/history                    *)
(* (src/src/app/api/history/route.ts), and of the Dashboard component that  *)
(* calls them from the browser (src/src/app/page.tsx, src/unnamed/part_003).*)
(*                                                                          *)
(* Times are milliseconds.  Percentages are fixed point, in tenths of a     *)
(* percent (Scale), so that AVG and Math.round are computed exactly.        *)
(***************************************************************************)
EXTENDS Integers, Sequences, FiniteSets, TLC

VARIABLES now, client_network, cpu, mem, system, req, cache, hist, variants, ui

vars == <<now, client_network, cpu, mem, system, req, cache, hist, variants, ui>>

-----------------------------------------------------------------------------
(* Bounds of the exploration *)

MaxRows == 3
MaxFamilyRows == 2
MaxNow == 450000

Deltas == {150000}
Reqs == {1, 2}
SingleReq == {1}
Pages == {1, 2}
Limits == {1, 2, 10}

(* Program constants *)

OnlineThresholdMs == 300000
DefaultLimit == 10
Scale == 10

-----------------------------------------------------------------------------
(* Host names.  A host name is a string; CodeUnits gives its characters,    *)
(* which decide both the store's ORDER BY host and the order in which a     *)
(* JavaScript object enumerates its keys.                                   *)

Hosts == {"10", "1a", "2"}

CodeUnits(h) ==
  CASE h = "10" -> <<49, 48>>
    [] h = "1a" -> <<49, 97>>
    [] h = "2"  -> <<50>>

RECURSIVE SeqLess(_, _)
SeqLess(s, t) ==
  IF t = <<>> THEN FALSE
  ELSE IF s = <<>> THEN TRUE
  ELSE IF Head(s) # Head(t) THEN Head(s) < Head(t)
  ELSE SeqLess(Tail(s), Tail(t))

\* ORDER BY host: text comparison of the host column
HostLess(a, b) == SeqLess(CodeUnits(a), CodeUnits(b))

IsDigit(c) == c >= 48 /\ c <= 57

RECURSIVE DigitsValue(_, _)
DigitsValue(s, acc) ==
  IF s = <<>> THEN acc ELSE DigitsValue(Tail(s), acc * 10 + (Head(s) - 48))

\* a property key that is a canonical array index ("0", "7", "10", not "007");
\* every canonical number of at most 9 digits is below the limit 2^32 - 1
IsArrayIndex(h) ==
  LET s == CodeUnits(h) IN
    /\ Len(s) >= 1
    /\ Len(s) <= 9
    /\ \A i \in 1..Len(s) : IsDigit(s[i])
    /\ (Len(s) = 1 \/ s[1] # 48)

IndexValue(h) == DigitsValue(CodeUnits(h), 0)

-----------------------------------------------------------------------------
(* Sequences helpers *)

RECURSIVE Perms(_)
Perms(S) ==
  IF S = {} THEN {<<>>}
  ELSE UNION {{<<x>> \o p : p \in Perms(S \ {x})} : x \in S}

Range(s) == {s[i] : i \in 1..Len(s)}

\* sum of column col over a set of rows
RECURSIVE SumOf(_, _)
SumOf(S, col) ==
  IF S = {} THEN 0
  ELSE LET x == CHOOSE y \in S : TRUE IN x[col] + SumOf(S \ {x}, col)

Min(a, b) == IF a <= b THEN a ELSE b

\* Math.round of the rational num/den (den > 0): nearest integer, halves up
MathRound(num, den) == (2 * num + den) \div (2 * den)

\* Math.ceil of the rational num/den (num >= 0, den > 0)
MathCeil(num, den) == (num + den - 1) \div den

-----------------------------------------------------------------------------
(* The store: four append-only tables written by the agents *)

Addrs ==
  { [ip |-> "10.0.0.1", mac |-> "aa:01"],
    [ip |-> "10.0.0.2", mac |-> "aa:02"] }

CpuTags == {"cpu-total", "cpu0"}

CpuSamples ==
  { [usage_idle |-> 900, usage_user |-> 60, usage_system |-> 30, usage_iowait |-> 10],
    [usage_idle |-> 105, usage_user |-> 605, usage_system |-> 200, usage_iowait |-> 90] }

MemSamples ==
  { [used_percent |-> 404, available_percent |-> 596, total |-> 8000, used |-> 3232],
    [used_percent |-> 875, available_percent |-> 125, total |-> 8000, used |-> 7000] }

\* SQL NULL is the empty sequence; a number n is <<n>>.  Loads are in
\* thousandths.
Null == <<>>
Num(n) == <<n>>

SystemSamples ==
  { [uptime |-> 93784, load1 |-> Num(1234), load5 |-> Num(505), load15 |-> Num(0)],
    [uptime |-> 3599, load1 |-> Null, load5 |-> Num(2996), load15 |-> Num(10)] }

RowCount ==
  Cardinality(client_network) + Cardinality(cpu) + Cardinality(mem)
    + Cardinality(system)

ReportNetwork(h, a, cap) ==
  /\ RowCount < cap
  /\ client_network' = client_network \cup
        {[host |-> h, time |-> now, ip |-> a.ip, mac |-> a.mac]}
  /\ client_network' # client_network
  /\ UNCHANGED <<now, cpu, mem, system, req, cache, hist, variants, ui>>

ReportCpu(h, tag, s, cap) ==
  /\ RowCount < cap
  /\ cpu' = cpu \cup
        {[host |-> h, time |-> now, cpu |-> tag, usage_idle |-> s.usage_idle,
          usage_user |-> s.usage_user, usage_system |-> s.usage_system,
          usage_iowait |-> s.usage_iowait]}
  /\ cpu' # cpu
  /\ UNCHANGED <<now, client_network, mem, system, req, cache, hist, variants, ui>>

ReportMem(h, s, cap) ==
  /\ RowCount < cap
  /\ mem' = mem \cup
        {[host |-> h, time |-> now, used_percent |-> s.used_percent,
          available_percent |-> s.available_percent, total |-> s.total,
          used |-> s.used]}
  /\ mem' # mem
  /\ UNCHANGED <<now, client_network, cpu, system, req, cache, hist, variants, ui>>

ReportSystem(h, s, cap) ==
  /\ RowCount < cap
  /\ system' = system \cup
        {[host |-> h, time |-> now, uptime |-> s.uptime, load1 |-> s.load1,
          load5 |-> s.load5, load15 |-> s.load15]}
  /\ system' # system
  /\ UNCHANGED <<now, client_network, cpu, mem, req, cache, hist, variants, ui>>

\* d milliseconds pass (up to the horizon of the exploration)
Tick(d, horizon) ==
  /\ now + d <= horizon
  /\ now' = now + d
  /\ UNCHANGED <<client_network, cpu, mem, system, req, cache, hist, variants, ui>>

-----------------------------------------------------------------------------
(* Query evaluation *)

\* ORDER BY host, time DESC
OrderedByHostTimeDesc(s) ==
  \A i \in 1..(Len(s) - 1) :
    \/ HostLess(s[i].host, s[i + 1].host)
    \/ (s[i].host = s[i + 1].host /\ s[i].time >= s[i + 1].time)

\* (variant: the last row of each run of equal hosts)
RECURSIVE DistinctOnHostLast(_)
DistinctOnHostLast(s) ==
  IF Len(s) <= 1 THEN s
  ELSE IF s[1].host = s[2].host
         THEN DistinctOnHostLast(Tail(s))
         ELSE <<s[1]>> \o DistinctOnHostLast(Tail(s))

\* DISTINCT ON (host): the first row of each run of equal hosts
RECURSIVE DistinctOnHost(_)
DistinctOnHost(s) ==
  IF Len(s) <= 1 THEN s
  ELSE LET rest == DistinctOnHost(Tail(s)) IN
         IF s[1].host = s[2].host
           THEN <<s[1]>> \o Tail(rest)
           ELSE <<s[1]>> \o rest

\* LIMIT limit OFFSET offset
LimitOffset(s, limit, offset) ==
  SubSeq(s, offset + 1, Min(Len(s), offset + limit))

\* SELECT DISTINCT ON (host) ... ORDER BY host, time DESC: every result the
\* store may return (rows of one host with equal times come in any order)
LatestPerHost(rows) ==
  {DistinctOnHost(s) : s \in {p \in Perms(rows) : OrderedByHostTimeDesc(p)}}

\* time > now() - interval '5 minutes'
FreshIntervalMs == 300000
\* (variant: time >= now() - interval '5 minutes')
IsFreshInclusive(r, dbNow) == r.time >= dbNow - FreshIntervalMs

IsFresh(r, dbNow) == r.time > dbNow - FreshIntervalMs

\* AVG(col): NULL over no rows, else the rational <<sum, count>>
Avg(rows, col) ==
  IF rows = {} THEN Null ELSE <<SumOf(rows, col), Cardinality(rows)>>

\* SELECT (100 - usage_idle) as cpu_active, ...
CpuProjection(r) ==
  [host |-> r.host, cpu_active |-> 100 * Scale - r.usage_idle,
   usage_user |-> r.usage_user, usage_system |-> r.usage_system,
   usage_iowait |-> r.usage_iowait, time |-> r.time]

\* (variant: the averages are taken over all rows)
SummaryRowOfAllRows(net, cpuRows, memRows, dbNow) ==
  [total  |-> Cardinality({r.host : r \in net}),
   online |-> Cardinality({r.host : r \in {x \in net : IsFresh(x, dbNow)}}),
   avg_cpu |-> Avg({CpuProjection(r) : r \in {x \in cpuRows : x.cpu = "cpu-total"}},
                   "cpu_active"),
   avg_ram |-> Avg(memRows, "used_percent")]

\* the summary query over the tables net, cpuRows and memRows: one row
SummaryRowOf(net, cpuRows, memRows, dbNow) ==
  [total  |-> Cardinality({r.host : r \in net}),
   online |-> Cardinality({r.host : r \in {x \in net : IsFresh(x, dbNow)}}),
   avg_cpu |-> Avg({CpuProjection(r) :
                     r \in {x \in cpuRows : x.cpu = "cpu-total" /\ IsFresh(x, dbNow)}},
                   "cpu_active"),
   avg_ram |-> Avg({r \in memRows : IsFresh(r, dbNow)}, "used_percent")]

SummaryRow(dbNow) == SummaryRowOf(client_network, cpu, mem, dbNow)

\* (variant: the page is cut from the hosts ordered by recency)
NetworkPageByRecency(limit, offset) ==
  {LimitOffset(p, limit, offset) :
     p \in UNION {{q \in Perms(Range(s)) :
                     \A i \in 1..(Len(q) - 1) : q[i].time >= q[i + 1].time} :
                  s \in LatestPerHost(client_network)}}

\* the page of client_network: every result the store may return
NetworkPage(limit, offset) ==
  {LimitOffset(s, limit, offset) : s \in LatestPerHost(client_network)}

SeqMap(s, F(_)) == [i \in 1..Len(s) |-> F(s[i])]

\* (variant: without the host filter)
CpuLatestUnfiltered(hostnames) ==
  {SeqMap(s, CpuProjection) : s \in LatestPerHost({r \in cpu : r.cpu = "cpu-total"})}

\* latest cpu-total row of each of the hosts
CpuLatest(hostnames) ==
  {SeqMap(s, CpuProjection) :
     s \in LatestPerHost({r \in cpu : r.cpu = "cpu-total" /\ r.host \in hostnames})}

MemLatest(hostnames) == LatestPerHost({r \in mem : r.host \in hostnames})

SystemLatest(hostnames) == LatestPerHost({r \in system : r.host \in hostnames})

-----------------------------------------------------------------------------
(* The handler's computations *)

\* Math.round(parseFloat(avg || '0'))
RoundAvg(avg) == IF avg = Null THEN 0 ELSE MathRound(avg[1], avg[2] * Scale)

\* (variant: Math.floor instead of Math.ceil)
TotalPagesFloor(totalHosts, limit) == totalHosts \div limit

TotalPages(totalHosts, limit) == MathCeil(totalHosts, limit)

\* (variant: <= instead of <)
IsOnlineInclusive(nowMs, time) == (nowMs - time) <= OnlineThresholdMs

IsOnline(nowMs, time) == (nowMs - time) < OnlineThresholdMs

\* parseFloat(v).toFixed(2): a load in thousandths to a two-decimals string
ToFixed2(v) ==
  IF v = Null THEN [text |-> "NaN"]
  ELSE [text |-> "fixed", hundredths |-> MathRound(v[1], 10)]

\* (variant: the hours are rounded)
UptimeStringRounded(uptimeSeconds) ==
  [days |-> uptimeSeconds \div (24 * 3600),
   hours |-> MathRound(uptimeSeconds % (24 * 3600), 3600)]

\* `${days}d ${hours}h`
UptimeString(uptimeSeconds) ==
  [days |-> uptimeSeconds \div (24 * 3600),
   hours |-> (uptimeSeconds % (24 * 3600)) \div 3600]

\* hostsMap is [keys |-> the own keys in insertion order, val |-> their values]
EmptyMap == [keys |-> <<>>, val |-> <<>>]

Has(m, k) == k \in Range(m.keys)

Put(m, k, v) ==
  IF Has(m, k)
    THEN [m EXCEPT !.val = [x \in Range(m.keys) |-> IF x = k THEN v ELSE m.val[x]]]
    ELSE [keys |-> Append(m.keys, k),
          val |-> [x \in Range(m.keys) \cup {k} |-> IF x = k THEN v ELSE m.val[x]]]

\* networkRes.rows.forEach
RECURSIVE MergeNetwork(_, _, _)
MergeNetwork(m, rows, nowMs) ==
  IF rows = <<>> THEN m
  ELSE LET r == Head(rows) IN
    MergeNetwork(
      Put(m, r.host,
          [hostname |-> r.host, ip |-> r.ip, mac |-> r.mac,
           status |-> IF IsOnline(nowMs, r.time) THEN "online" ELSE "offline",
           lastUpdate |-> r.time]),
      Tail(rows), nowMs)

\* (variant: a negative cpu is raised to 0)
CpuFieldsClamped(r) ==
  [cpu |-> IF MathRound(r.cpu_active, Scale) < 0 THEN 0 ELSE MathRound(r.cpu_active, Scale),
   cpuBreakdown |-> [user |-> MathRound(r.usage_user, Scale),
                     system |-> MathRound(r.usage_system, Scale),
                     iowait |-> MathRound(r.usage_iowait, Scale)]]

CpuFields(r) ==
  [cpu |-> MathRound(r.cpu_active, Scale),
   cpuBreakdown |-> [user |-> MathRound(r.usage_user, Scale),
                     system |-> MathRound(r.usage_system, Scale),
                     iowait |-> MathRound(r.usage_iowait, Scale)]]

MemFields(r) ==
  [ram |-> MathRound(r.used_percent, Scale),
   ramAvailablePercent |-> MathRound(r.available_percent, Scale),
   ramTotal |-> r.total, ramUsed |-> r.used]

SystemFields(r) ==
  [uptime |-> UptimeString(r.uptime),
   load |-> [l1 |-> ToFixed2(r.load1), l5 |-> ToFixed2(r.load5),
             l15 |-> ToFixed2(r.load15)]]

\* (variant: a host without a row gets a cpu of 0)
RECURSIVE MergeCpuDefault(_, _)
MergeCpuDefault(m, rows) ==
  IF rows = <<>>
    THEN [m EXCEPT !.val = [k \in DOMAIN m.val |-> m.val[k] @@ [cpu |-> 0]]]
  ELSE LET r == Head(rows) IN
    MergeCpuDefault(IF Has(m, r.host) THEN Put(m, r.host, CpuFields(r) @@ m.val[r.host]) ELSE m,
                    Tail(rows))

\* cpuRes.rows.forEach
RECURSIVE MergeCpu(_, _)
MergeCpu(m, rows) ==
  IF rows = <<>> THEN m
  ELSE LET r == Head(rows) IN
    MergeCpu(IF Has(m, r.host) THEN Put(m, r.host, CpuFields(r) @@ m.val[r.host]) ELSE m,
             Tail(rows))

\* memRes.rows.forEach
RECURSIVE MergeMem(_, _)
MergeMem(m, rows) ==
  IF rows = <<>> THEN m
  ELSE LET r == Head(rows) IN
    MergeMem(IF Has(m, r.host) THEN Put(m, r.host, MemFields(r) @@ m.val[r.host]) ELSE m,
             Tail(rows))

\* systemRes.rows.forEach
RECURSIVE MergeSystem(_, _)
MergeSystem(m, rows) ==
  IF rows = <<>> THEN m
  ELSE LET r == Head(rows) IN
    MergeSystem(IF Has(m, r.host) THEN Put(m, r.host, SystemFields(r) @@ m.val[r.host]) ELSE m,
                Tail(rows))

\* Object.values: array-index keys in ascending numeric order, then the
\* other keys in insertion order
ObjectValues(m) ==
  LET idx == {k \in Range(m.keys) : IsArrayIndex(k)}
      idxSeq == CHOOSE s \in Perms(idx) :
                  \A i \in 1..(Len(s) - 1) : IndexValue(s[i]) < IndexValue(s[i + 1])
      strSeq == SelectSeq(m.keys, LAMBDA k : ~IsArrayIndex(k))
      order == idxSeq \o strSeq
  IN [i \in 1..Len(order) |-> m.val[order[i]]]

-----------------------------------------------------------------------------
(* The requests *)

NoResponse == [status |-> 0]

\* the cache slot when nothing has been stored
NoCache == [timestamp |-> -1]

IdleReq ==
  [pc |-> "idle", page |-> 0, limit |-> 0, offset |-> 0, arrival |-> 0,
   totalHosts |-> 0, onlineHosts |-> 0, avgCpu |-> 0, avgRam |-> 0,
   networkRes |-> <<>>, cpuRes |-> <<>>, memRes |-> <<>>, systemRes |-> <<>>,
   queries |-> 0, resp |-> NoResponse,
   \* the pooled connection the pending query runs on
   conn |-> FALSE, heldFor |-> "",
   \* history of the request, not read by the handler
   pageHosts |-> {}, mergedAt |-> 0, failedAt |-> ""]

\* the /api/history requests
HistReqs == {1}

NoParam == <<>>
Param(v) == <<v>>

IdleHist ==
  [pc |-> "idle", host |-> NoParam, type |-> "cpu", connects |-> 0,
   connected |-> FALSE, queries |-> 0, rows |-> <<>>, result |-> NoResponse,
   resp |-> NoResponse,
   \* history of the request, not read by the handler
   candidates |-> {}, endFailed |-> FALSE]

\* the state of the Dashboard component before it is mounted: the useState
\* initial values, no interval, no fetch in flight
IdleUi ==
  [client |-> "v1", mounted |-> FALSE,
   pcs |-> <<>>, selectedPC |-> Null, history |-> <<>>, chartType |-> "cpu",
   currentPage |-> 1, pagination |-> <<>>, summary |-> <<>>,
   \* the intervals set and not cleared, each with the closure of its callback
   intervals |-> {},
   \* the fetches whose promise is pending, each with the closure it runs in
   statsInFlight |-> {}, historyInFlight |-> {},
   \* history of the session, not read by the component
   lastClicked |-> Null, rejected |-> FALSE]

\* the responses of the three variants of /api/stats to one request
NoVariants == [v1 |-> NoResponse, v2 |-> NoResponse, v3 |-> NoResponse]

Init ==
  /\ now = 0
  /\ client_network = {}
  /\ cpu = {}
  /\ mem = {}
  /\ system = {}
  /\ req = [r \in Reqs |-> IdleReq]
  /\ cache = NoCache
  /\ hist = [r \in HistReqs |-> IdleHist]
  /\ variants = NoVariants
  /\ ui = IdleUi

Hostnames(r) == {req[r].networkRes[i].host : i \in 1..Len(req[r].networkRes)}

\* GET: the parameters are read and the first query is about to be sent
StartRequest(r, p, l) ==
  /\ req[r].pc = "idle"
  /\ req' = [req EXCEPT ![r] = [@ EXCEPT !.pc = "summary", !.page = p, !.limit = l,
                                          !.offset = (p - 1) * l, !.arrival = now]]
  /\ UNCHANGED <<now, client_network, cpu, mem, system, cache, hist, variants, ui>>

\* 1. summary stats
SummaryQuery(r) ==
  /\ req[r].pc = "summary"
  /\ LET row == SummaryRow(now) IN
       req' = [req EXCEPT ![r] = [@ EXCEPT !.pc = "network",
                 !.totalHosts = row.total, !.onlineHosts = row.online,
                 !.avgCpu = RoundAvg(row.avg_cpu), !.avgRam = RoundAvg(row.avg_ram),
                 !.queries = @ + 1]]
  /\ UNCHANGED <<now, client_network, cpu, mem, system, cache, hist, variants, ui>>

SummaryOf(q) ==
  [total |-> q.totalHosts, online |-> q.onlineHosts,
   offline |-> q.totalHosts - q.onlineHosts]

\* the response of the early return on an empty page
EmptyPageResponse(q) ==
  [status |-> 200,
   body |-> [data |-> <<>>,
             summary |-> SummaryOf(q),
             pagination |-> [totalHosts |-> q.totalHosts,
                             totalPages |-> TotalPages(q.totalHosts, q.limit),
                             currentPage |-> q.page]]]

\* 2. the page of client_network, and the early return when it is empty
NetworkQuery(r) ==
  /\ req[r].pc = "network"
  /\ \E res \in NetworkPage(req[r].limit, req[r].offset) :
       req' = [req EXCEPT ![r] =
                 IF Len(res) = 0
                   THEN [@ EXCEPT !.pc = "done", !.queries = @ + 1,
                                  !.pageHosts = {x.host : x \in client_network},
                                  !.resp = EmptyPageResponse(req[r])]
                   ELSE [@ EXCEPT !.pc = "cpu", !.queries = @ + 1,
                                  !.pageHosts = {x.host : x \in client_network},
                                  !.networkRes = res]]
  /\ UNCHANGED <<now, client_network, cpu, mem, system, cache, hist, variants, ui>>

\* 3. latest cpu rows of the page's hosts
CpuQuery(r) ==
  /\ req[r].pc = "cpu"
  /\ \E res \in CpuLatest(Hostnames(r)) :
       req' = [req EXCEPT ![r] = [@ EXCEPT !.pc = "mem", !.queries = @ + 1,
                                          !.cpuRes = res]]
  /\ UNCHANGED <<now, client_network, cpu, mem, system, cache, hist, variants, ui>>

\* 4. latest mem rows of the page's hosts
MemQuery(r) ==
  /\ req[r].pc = "mem"
  /\ \E res \in MemLatest(Hostnames(r)) :
       req' = [req EXCEPT ![r] = [@ EXCEPT !.pc = "system", !.queries = @ + 1,
                                          !.memRes = res]]
  /\ UNCHANGED <<now, client_network, cpu, mem, system, cache, hist, variants, ui>>

\* 5. latest system rows of the page's hosts
SystemQuery(r) ==
  /\ req[r].pc = "system"
  /\ \E res \in SystemLatest(Hostnames(r)) :
       req' = [req EXCEPT ![r] = [@ EXCEPT !.pc = "merge", !.queries = @ + 1,
                                          !.systemRes = res]]
  /\ UNCHANGED <<now, client_network, cpu, mem, system, cache, hist, variants, ui>>

\* the hostsMap built from the four results
HostsMap(q, nowMs) ==
  MergeSystem(
    MergeMem(
      MergeCpu(MergeNetwork(EmptyMap, q.networkRes, nowMs), q.cpuRes),
      q.memRes),
    q.systemRes)

SuccessResponse(q, nowMs) ==
  [status |-> 200,
   body |-> [data |-> ObjectValues(HostsMap(q, nowMs)),
             summary |-> SummaryOf(q) @@ [avgCpu |-> q.avgCpu, avgRam |-> q.avgRam],
             pagination |-> [totalHosts |-> q.totalHosts,
                             totalPages |-> TotalPages(q.totalHosts, q.limit),
                             currentPage |-> q.page,
                             limit |-> q.limit]]]

\* the results are combined and the response is returned
Merge(r) ==
  /\ req[r].pc = "merge"
  /\ req' = [req EXCEPT ![r] = [@ EXCEPT !.pc = "done", !.mergedAt = now,
                                         !.resp = SuccessResponse(req[r], now)]]
  /\ UNCHANGED <<now, client_network, cpu, mem, system, cache, hist, variants, ui>>

QueryPcs == {"summary", "network", "cpu", "mem", "system"}

\* catch (error): 500 with the error's message
\* (variant: the rows fetched so far are sent along with the error)
ErrorResponseWithData(q) ==
  [status |-> 500, body |-> [error |-> "store error", data |-> q.networkRes]]

ErrorResponse(q) == [status |-> 500, body |-> [error |-> "store error"]]

\* (variant: the failed query is issued again)
QueryFailsRetried(r) ==
  /\ req[r].pc \in QueryPcs
  /\ req' = [req EXCEPT ![r] = [@ EXCEPT !.queries = @ + 1]]
  /\ UNCHANGED <<now, client_network, cpu, mem, system, cache, hist, variants, ui>>

\* the query the request is waiting for fails
QueryFails(r) ==
  /\ req[r].pc \in QueryPcs
  /\ req' = [req EXCEPT ![r] = [@ EXCEPT !.pc = "done", !.queries = @ + 1,
                                         !.failedAt = req[r].pc,
                                         !.resp = ErrorResponse(req[r])]]
  /\ UNCHANGED <<now, client_network, cpu, mem, system, cache, hist, variants, ui>>

\* the agents of the hosts H append a row to one of the four tables, as long
\* as the store holds fewer than cap rows
Report(H, cap) ==
  \/ \E h \in H, a \in Addrs : ReportNetwork(h, a, cap)
  \/ \E h \in H, t \in CpuTags, s \in CpuSamples : ReportCpu(h, t, s, cap)
  \/ \E h \in H, s \in MemSamples : ReportMem(h, s, cap)
  \/ \E h \in H, s \in SystemSamples : ReportSystem(h, s, cap)

\* a step of the handler for request r, started with one of the <<page, limit>>
\* pairs of PL
Handle(r, PL) ==
  \/ \E pl \in PL : StartRequest(r, pl[1], pl[2])
  \/ SummaryQuery(r)
  \/ NetworkQuery(r)
  \/ CpuQuery(r)
  \/ MemQuery(r)
  \/ SystemQuery(r)
  \/ Merge(r)
  \/ QueryFails(r)

(* Paging scenario: three hosts report their network identity, a request    *)
(* for any page and limit runs while they do and while time passes.         *)
PagingAddrs == {[ip |-> "10.0.0.1", mac |-> "aa:01"]}

Next ==
  \/ \E d \in Deltas : Tick(d, MaxNow)
  \/ \E h \in Hosts, a \in PagingAddrs : ReportNetwork(h, a, MaxRows)
  \/ \E r \in SingleReq : Handle(r, Pages \X Limits)

Spec == Init /\ [][Next]_vars

(* Families scenario: two hosts that are known to the store report rows of  *)
(* all four families, a request for the first page runs while they do and   *)
(* while time passes.                                                       *)
FamilyHosts == {"1a", "2"}
FamilyDeltas == {450000}
FamilyLimits == {1, 10}

KnownHosts ==
  {[host |-> h, time |-> 0, ip |-> "10.0.0.1", mac |-> "aa:01"] : h \in FamilyHosts}

InitFamilies ==
  /\ now = 0
  /\ client_network = KnownHosts
  /\ cpu = {}
  /\ mem = {}
  /\ system = {}
  /\ req = [r \in Reqs |-> IdleReq]
  /\ cache = NoCache
  /\ hist = [r \in HistReqs |-> IdleHist]
  /\ variants = NoVariants
  /\ ui = IdleUi

NextFamilies ==
  \/ \E d \in FamilyDeltas : Tick(d, MaxNow)
  \/ Report(FamilyHosts, Cardinality(KnownHosts) + MaxFamilyRows)
  \/ \E r \in SingleReq : Handle(r, {1} \X FamilyLimits)

SpecFamilies == InitFamilies /\ [][NextFamilies]_vars

(* Refresh scenario: two requests, concurrent or one after the other, for   *)
(* the first two hosts or for the second host, while the two known hosts    *)
(* and a third one report their network identity and time passes.           *)
MaxRefreshRows == 1
MaxRefreshNow == 150000
RefreshParams == {<<1, 2>>, <<2, 1>>}

NextRefresh ==
  \/ \E d \in Deltas : Tick(d, MaxRefreshNow)
  \/ \E h \in Hosts, a \in PagingAddrs :
       ReportNetwork(h, a, Cardinality(KnownHosts) + MaxRefreshRows)
  \/ \E r \in Reqs : Handle(r, RefreshParams)

SpecRefresh == InitFamilies /\ [][NextRefresh]_vars

(* Averages scenario: the two known hosts report cpu and memory rows at two *)
(* moments within the freshness window; a request for the first page runs   *)
(* while they do.                                                           *)
MaxAverageRows == 3
MaxAverageNow == 150000

NextAverages ==
  \/ \E d \in Deltas : Tick(d, MaxAverageNow)
  \/ \E h \in FamilyHosts, t \in CpuTags, s \in CpuSamples :
       ReportCpu(h, t, s, Cardinality(KnownHosts) + MaxAverageRows)
  \/ \E h \in FamilyHosts, s \in MemSamples :
       ReportMem(h, s, Cardinality(KnownHosts) + MaxAverageRows)
  \/ \E r \in SingleReq : Handle(r, {<<1, DefaultLimit>>})

SpecAverages == InitFamilies /\ [][NextAverages]_vars

(* Cpu scenario: the two known hosts report cpu-total rows whose usage_idle *)
(* lies around and above 100; a request for the first page runs while they  *)
(* do and while time passes.                                                *)
MaxEdgeRows == 2
EdgeIdles == {900, 996, 1000, 1004, 1005, 1016}

EdgeCpuSamples ==
  {[usage_idle |-> i, usage_user |-> 0, usage_system |-> 0, usage_iowait |-> 0] :
     i \in EdgeIdles}

NextCpu ==
  \/ \E d \in FamilyDeltas : Tick(d, MaxNow)
  \/ \E h \in FamilyHosts, s \in EdgeCpuSamples :
       ReportCpu(h, "cpu-total", s, Cardinality(KnownHosts) + MaxEdgeRows)
  \/ \E r \in SingleReq : Handle(r, {<<1, DefaultLimit>>})

SpecCpu == InitFamilies /\ [][NextCpu]_vars

(* Uptime scenario: the two known hosts report system rows whose uptime    *)
(* lies around the hour and day boundaries; a request for the first page    *)
(* runs while they do and while time passes.                                *)
MaxUptimeRows == 2
EdgeUptimes == {0, 3599, 3600, 86399, 86400, 93784, 94694399}

EdgeSystemSamples ==
  {[uptime |-> u, load1 |-> Num(1234), load5 |-> Num(505), load15 |-> Num(0)] :
     u \in EdgeUptimes}

NextUptime ==
  \/ \E d \in FamilyDeltas : Tick(d, MaxNow)
  \/ \E h \in FamilyHosts, s \in EdgeSystemSamples :
       ReportSystem(h, s, Cardinality(KnownHosts) + MaxUptimeRows)
  \/ \E r \in SingleReq : Handle(r, {<<1, DefaultLimit>>})

SpecUptime == InitFamilies /\ [][NextUptime]_vars

-----------------------------------------------------------------------------
(* The response cache of the later variant of the handler: a single slot    *)
(* for page 1 with the default limit, valid for 15 seconds.  The handler    *)
(* computes a missing or expired entry with the queries above.              *)

CacheTtlMs == 15000

Qualifies(p, l) == p = 1 /\ l = DefaultLimit

\* (variant: the entry never expires)
CacheFreshForever(c, nowMs) == c # NoCache

\* the slot holds an entry that has not expired
CacheFresh(c, nowMs) == c # NoCache /\ nowMs - c.timestamp < CacheTtlMs

\* (variant: the cache is never read)
UsesCacheNever(p, l, c, nowMs) == FALSE

\* the request is answered from the cache
UsesCache(p, l, c, nowMs) == Qualifies(p, l) /\ CacheFresh(c, nowMs)

\* (variant: every result is stored)
StoresResultAlways(p, l) == TRUE

\* the result of the request is stored in the cache
StoresResult(p, l) == Qualifies(p, l)

\* GET of the cached variant: a qualifying request is answered from a fresh
\* entry without a query, every other request starts the queries
CachedGet(r, p, l) ==
  IF UsesCache(p, l, cache, now)
    THEN /\ req[r].pc = "idle"
         /\ req' = [req EXCEPT ![r] = [@ EXCEPT !.pc = "done", !.page = p,
                     !.limit = l, !.offset = (p - 1) * l, !.arrival = now,
                     !.resp = [status |-> 200, body |-> cache.data]]]
         /\ UNCHANGED <<now, client_network, cpu, mem, system, cache, hist, variants, ui>>
    ELSE StartRequest(r, p, l)

\* the combined result is returned and, for a qualifying request, stored
\* with the current time
CachedMerge(r) ==
  /\ req[r].pc = "merge"
  /\ req' = [req EXCEPT ![r] = [@ EXCEPT !.pc = "done", !.mergedAt = now,
                                         !.resp = SuccessResponse(req[r], now)]]
  /\ cache' = IF StoresResult(req[r].page, req[r].limit)
                THEN [data |-> SuccessResponse(req[r], now).body, timestamp |-> now]
                ELSE cache
  /\ UNCHANGED <<now, client_network, cpu, mem, system, hist, variants, ui>>

HandleCached(r, PL) ==
  \/ \E pl \in PL : CachedGet(r, pl[1], pl[2])
  \/ SummaryQuery(r)
  \/ NetworkQuery(r)
  \/ CpuQuery(r)
  \/ MemQuery(r)
  \/ SystemQuery(r)
  \/ CachedMerge(r)
  \/ QueryFails(r)

(* Cache scenario: two requests, concurrent or one after the other, for    *)
(* page 1 with the default limit, page 1 with limit 1 or page 2 with limit  *)
(* 1, while the two known hosts report their network identity and time      *)
(* passes in steps of 7.5 s.                                                *)
MaxCacheRows == 1
MaxCacheNow == 22500
CacheDeltas == {7500}
CacheParams == {<<1, 10>>, <<1, 1>>, <<2, 1>>}

NextCache ==
  \/ \E d \in CacheDeltas : Tick(d, MaxCacheNow)
  \/ \E h \in FamilyHosts, a \in PagingAddrs :
       ReportNetwork(h, a, Cardinality(KnownHosts) + MaxCacheRows)
  \/ \E r \in Reqs : HandleCached(r, CacheParams)

SpecCache == InitFamilies /\ [][NextCache]_vars

-----------------------------------------------------------------------------
(* The earlier variants of the /api/stats handler: the unpaginated one with *)
(* four queries over all hosts (route.ts, first GET) and the paginated one  *)
(* without the summary (part_002).                                          *)

\* hostsMap[p.host] gets the fields of each patch p whose host has an entry
RECURSIVE MergeInto(_, _)
MergeInto(m, patches) ==
  IF patches = <<>> THEN m
  ELSE LET p == Head(patches) IN
    MergeInto(IF Has(m, p.host) THEN Put(m, p.host, p.fields @@ m.val[p.host]) ELSE m,
              Tail(patches))

\* v?.toFixed(2) || '0.00'
OptionalToFixed2(v) ==
  IF v = Null THEN [text |-> "fixed", hundredths |-> 0]
  ELSE [text |-> "fixed", hundredths |-> MathRound(v[1], 10)]

CpuPatch(r) == [host |-> r.host, fields |-> [cpu |-> MathRound(r.cpu_active, Scale)]]

MemPatch(r) ==
  [host |-> r.host,
   fields |-> [ram |-> MathRound(r.used_percent, Scale), ramTotal |-> r.total,
               ramUsed |-> r.used]]

SystemPatchV1(r) ==
  [host |-> r.host,
   fields |-> [uptime |-> UptimeString(r.uptime),
               load |-> [l1 |-> OptionalToFixed2(r.load1),
                         l5 |-> OptionalToFixed2(r.load5),
                         l15 |-> OptionalToFixed2(r.load15)]]]

SystemPatchV2(r) == [host |-> r.host, fields |-> [uptime |-> UptimeString(r.uptime)]]

\* the hostsMap of the earlier variants
HostsMapV(networkRes, cpuRes, memRes, systemPatches, nowMs) ==
  MergeInto(
    MergeInto(
      MergeInto(MergeNetwork(EmptyMap, networkRes, nowMs), SeqMap(cpuRes, CpuPatch)),
      SeqMap(memRes, MemPatch)),
    systemPatches)

\* the unpaginated variant: the array itself is the body
ResponseV1(networkRes, cpuRes, memRes, systemRes, nowMs) ==
  [status |-> 200,
   body |-> ObjectValues(HostsMapV(networkRes, cpuRes, memRes,
                                   SeqMap(systemRes, SystemPatchV1), nowMs))]

\* the paginated variant without summary
ResponseV2(page, limit, totalHosts, networkRes, cpuRes, memRes, systemRes, nowMs) ==
  IF Len(networkRes) = 0
    THEN [status |-> 200,
          body |-> [data |-> <<>>,
                    pagination |-> [totalHosts |-> totalHosts,
                                    totalPages |-> TotalPages(totalHosts, limit),
                                    currentPage |-> page]]]
    ELSE [status |-> 200,
          body |-> [data |-> ObjectValues(HostsMapV(networkRes, cpuRes, memRes,
                                            SeqMap(systemRes, SystemPatchV2), nowMs)),
                    pagination |-> [totalHosts |-> totalHosts,
                                    totalPages |-> TotalPages(totalHosts, limit),
                                    currentPage |-> page,
                                    limit |-> limit]]]

\* the paginated variant with the summary, run without interruption
ResponseV3(page, limit, networkRes, cpuRes, memRes, systemRes, nowMs) ==
  LET row == SummaryRow(nowMs)
      q == [IdleReq EXCEPT !.page = page, !.limit = limit,
              !.offset = (page - 1) * limit, !.totalHosts = row.total,
              !.onlineHosts = row.online, !.avgCpu = RoundAvg(row.avg_cpu),
              !.avgRam = RoundAvg(row.avg_ram), !.networkRes = networkRes,
              !.cpuRes = cpuRes, !.memRes = memRes, !.systemRes = systemRes]
  IN IF Len(networkRes) = 0 THEN EmptyPageResponse(q) ELSE SuccessResponse(q, nowMs)

HostsOf(rows) == {rows[i].host : i \in 1..Len(rows)}

\* the three variants answer a request for page p with limit l on the same
\* store contents at the same time
RunVariants(p, l) ==
  /\ variants = NoVariants
  /\ \E n1 \in LatestPerHost(client_network),
        c1 \in CpuLatest({x.host : x \in cpu}),
        m1 \in LatestPerHost(mem),
        s1 \in LatestPerHost(system),
        n2 \in NetworkPage(l, (p - 1) * l),
        n3 \in NetworkPage(l, (p - 1) * l) :
       \E c2 \in CpuLatest(HostsOf(n2)), m2 \in MemLatest(HostsOf(n2)),
          s2 \in SystemLatest(HostsOf(n2)),
          c3 \in CpuLatest(HostsOf(n3)), m3 \in MemLatest(HostsOf(n3)),
          s3 \in SystemLatest(HostsOf(n3)) :
         variants' =
           [v1 |-> ResponseV1(n1, c1, m1, s1, now),
            v2 |-> ResponseV2(p, l, Cardinality({x.host : x \in client_network}),
                              n2, c2, m2, s2, now),
            v3 |-> ResponseV3(p, l, n3, c3, m3, s3, now)]
  /\ UNCHANGED <<now, client_network, cpu, mem, system, req, cache, hist, ui>>

(* Variants scenario: the two known hosts report rows of all four families  *)
(* and time passes; at some moment the three variants answer a request for  *)
(* the first page with the default limit.                                   *)
MaxVariantRows == 2

NextVariants ==
  \/ \E d \in FamilyDeltas : Tick(d, MaxNow)
  \/ Report(FamilyHosts, Cardinality(KnownHosts) + MaxVariantRows)
  \/ RunVariants(1, DefaultLimit)

SpecVariants == InitFamilies /\ [][NextVariants]_vars

-----------------------------------------------------------------------------
(* The /api/history route handler (src/src/app/api/history/route.ts): the   *)
(* last observations of one metric of one host, over a connection of its    *)
(* own that it opens and closes.                                            *)

HistoryLimit == 20

\* (variant: only an absent host parameter is refused)
MissingHostNullOnly(h) == h = NoParam

\* !host: the parameter is absent or empty
MissingHost(h) == h = NoParam \/ h = Param("")

\* searchParams.get('type') || 'cpu'
TypeOf(t) == IF t = NoParam \/ t = Param("") THEN "cpu" ELSE t[1]

\* the rows of the metric's table that the WHERE clause keeps
HistoryCandidates(type, host) ==
  IF type = "cpu"
    THEN {r \in cpu : r.host = host /\ r.cpu = "cpu-total"}
    ELSE {r \in mem : r.host = host}

\* SELECT time, ... as usage
HistoryProjection(type, r) ==
  [time |-> r.time,
   usage |-> IF type = "cpu" THEN 100 * Scale - r.usage_idle ELSE r.used_percent]

\* (variant: ORDER BY time ASC LIMIT k)
RECURSIVE OrderByTimeAscLimit(_, _)
OrderByTimeAscLimit(rows, k) ==
  IF k = 0 \/ rows = {} THEN {<<>>}
  ELSE UNION {{<<x>> \o rest : rest \in OrderByTimeAscLimit(rows \ {x}, k - 1)} :
                x \in {y \in rows : \A z \in rows : y.time <= z.time}}

\* ORDER BY time DESC LIMIT k: every result the store may return (rows with
\* equal times come in any order)
RECURSIVE OrderByTimeDescLimit(_, _)
OrderByTimeDescLimit(rows, k) ==
  IF k = 0 \/ rows = {} THEN {<<>>}
  ELSE UNION {{<<x>> \o rest : rest \in OrderByTimeDescLimit(rows \ {x}, k - 1)} :
                x \in {y \in rows : \A z \in rows : z.time <= y.time}}

\* rows.reverse()
Reverse(s) == [i \in 1..Len(s) |-> s[Len(s) + 1 - i]]

\* toLocaleTimeString([], {hour: '2-digit', minute: '2-digit'}) of a time in
\* milliseconds, on a server whose time zone is UTC
LocaleTimeString(t) ==
  [hour |-> (t \div 3600000) % 24, minute |-> (t \div 60000) % 60]

\* rows.map(r => ({time: ..., usage: Math.round(r.usage)}))
HistoryPoint(r) ==
  [time |-> LocaleTimeString(r.time), usage |-> MathRound(r.usage, Scale)]

\* GET: a request without a host is refused at once; otherwise a client is
\* created and its connection is about to be opened
HistoryGet(r, h, t) ==
  /\ hist[r].pc = "idle"
  /\ hist' = [hist EXCEPT ![r] =
       IF MissingHost(h)
         THEN [@ EXCEPT !.pc = "done", !.host = h, !.type = TypeOf(t),
                        !.resp = [status |-> 400, body |-> [error |-> "Host required"]]]
         ELSE [@ EXCEPT !.pc = "connect", !.host = h, !.type = TypeOf(t)]]
  /\ UNCHANGED <<now, client_network, cpu, mem, system, req, cache, variants, ui>>

\* await client.connect()
HistoryConnect(r) ==
  /\ hist[r].pc = "connect"
  /\ hist' = [hist EXCEPT ![r] = [@ EXCEPT !.pc = "query", !.connects = @ + 1,
                                           !.connected = TRUE]]
  /\ UNCHANGED <<now, client_network, cpu, mem, system, req, cache, variants, ui>>

\* client.connect() rejects: catch, then finally
HistoryConnectFails(r) ==
  /\ hist[r].pc = "connect"
  /\ hist' = [hist EXCEPT ![r] = [@ EXCEPT !.pc = "closing", !.connects = @ + 1,
                 !.result = [status |-> 500, body |-> [error |-> "store error"]]]]
  /\ UNCHANGED <<now, client_network, cpu, mem, system, req, cache, variants, ui>>

\* await client.query(...), reverse and map
HistoryQuery(r) ==
  /\ hist[r].pc = "query"
  /\ LET type == hist[r].type
         found == HistoryCandidates(type, hist[r].host[1])
     IN \E res \in OrderByTimeDescLimit(found, HistoryLimit) :
          LET rows == Reverse([i \in 1..Len(res) |-> HistoryProjection(type, res[i])])
          IN hist' = [hist EXCEPT ![r] = [@ EXCEPT !.pc = "closing",
                        !.queries = @ + 1, !.rows = rows, !.candidates = found,
                        !.result = [status |-> 200, body |-> SeqMap(rows, HistoryPoint)]]]
  /\ UNCHANGED <<now, client_network, cpu, mem, system, req, cache, variants, ui>>

\* client.query() rejects: catch, then finally
HistoryQueryFails(r) ==
  /\ hist[r].pc = "query"
  /\ hist' = [hist EXCEPT ![r] = [@ EXCEPT !.pc = "closing", !.queries = @ + 1,
                 !.result = [status |-> 500, body |-> [error |-> "store error"]]]]
  /\ UNCHANGED <<now, client_network, cpu, mem, system, req, cache, variants, ui>>

\* (variant: the response is returned without closing the client)
HistoryEndSkipped(r) ==
  /\ hist[r].pc = "closing"
  /\ hist' = [hist EXCEPT ![r] = [@ EXCEPT !.pc = "done", !.resp = hist[r].result]]
  /\ UNCHANGED <<now, client_network, cpu, mem, system, req, cache, variants, ui>>

\* finally: await client.end(), after which the response is returned
HistoryEnd(r) ==
  /\ hist[r].pc = "closing"
  /\ hist' = [hist EXCEPT ![r] = [@ EXCEPT !.pc = "done", !.connected = FALSE,
                                           !.resp = hist[r].result]]
  /\ UNCHANGED <<now, client_network, cpu, mem, system, req, cache, variants, ui>>

\* finally: client.end() rejects, on a connection that is already torn down;
\* the rejection is logged by .catch(console.error) and the response is
\* returned
HistoryEndFails(r) ==
  /\ hist[r].pc = "closing"
  /\ hist' = [hist EXCEPT ![r] = [@ EXCEPT !.pc = "done", !.connected = FALSE,
                                           !.endFailed = TRUE,
                                           !.resp = hist[r].result]]
  /\ UNCHANGED <<now, client_network, cpu, mem, system, req, cache, variants, ui>>

(* History scenario: host "1a" has a backlog of one observation a minute in *)
(* the cpu and mem tables, host "2" and the per-core rows have newer ones;  *)
(* a request for the history of any host and metric runs while the agents   *)
(* append rows and time passes.                                             *)
MaxHistoryRows == 21
MaxHistoryAppends == 2

HistoryStep == 60000
HistoryNow == (MaxHistoryRows + 1) * HistoryStep
HistoryCounts == {0, HistoryLimit - 1, HistoryLimit, MaxHistoryRows}
HistoryHostParams == {NoParam, Param(""), Param("1a"), Param("zz")}
HistoryTypeParams == {NoParam, Param("cpu"), Param("mem")}

IdleCpu == [usage_idle |-> 900, usage_user |-> 60, usage_system |-> 30, usage_iowait |-> 10]
BusyCpu == [usage_idle |-> 105, usage_user |-> 605, usage_system |-> 200, usage_iowait |-> 90]
LowMem == [used_percent |-> 404, available_percent |-> 596, total |-> 8000, used |-> 3232]
HighMem == [used_percent |-> 875, available_percent |-> 125, total |-> 8000, used |-> 7000]

CpuRow(h, t, tag, s) ==
  [host |-> h, time |-> t, cpu |-> tag, usage_idle |-> s.usage_idle,
   usage_user |-> s.usage_user, usage_system |-> s.usage_system,
   usage_iowait |-> s.usage_iowait]

MemRow(h, t, s) ==
  [host |-> h, time |-> t, used_percent |-> s.used_percent,
   available_percent |-> s.available_percent, total |-> s.total, used |-> s.used]

CpuBacklog(n) ==
  {CpuRow("1a", i * HistoryStep, "cpu-total", IF i % 2 = 0 THEN IdleCpu ELSE BusyCpu) :
     i \in 1..n}
    \cup {CpuRow("2", HistoryNow - 1, "cpu-total", IdleCpu),
          CpuRow("1a", HistoryNow - 1, "cpu0", BusyCpu)}

MemBacklog(n) ==
  {MemRow("1a", i * HistoryStep, IF i % 2 = 0 THEN LowMem ELSE HighMem) : i \in 1..n}
    \cup {MemRow("2", HistoryNow - 1, HighMem)}

\* the rows appended since the scenario began
Appended == {r \in cpu \cup mem : r.time >= HistoryNow}

InitHistory ==
  /\ now = HistoryNow
  /\ client_network = KnownHosts
  /\ \E n \in HistoryCounts : cpu = CpuBacklog(n) /\ mem = MemBacklog(n)
  /\ system = {}
  /\ req = [r \in Reqs |-> IdleReq]
  /\ cache = NoCache
  /\ hist = [r \in HistReqs |-> IdleHist]
  /\ variants = NoVariants
  /\ ui = IdleUi

HandleHistory(r) ==
  \/ \E h \in HistoryHostParams, t \in HistoryTypeParams : HistoryGet(r, h, t)
  \/ HistoryConnect(r)
  \/ HistoryConnectFails(r)
  \/ HistoryQuery(r)
  \/ HistoryQueryFails(r)
  \/ HistoryEnd(r)
  \/ HistoryEndFails(r)

NextHistory ==
  \/ Tick(HistoryStep, HistoryNow + HistoryStep)
  \/ \E h \in FamilyHosts, t \in CpuTags, s \in CpuSamples :
       Cardinality(Appended) < MaxHistoryAppends /\ ReportCpu(h, t, s, RowCount + 1)
  \/ \E h \in FamilyHosts, s \in MemSamples :
       Cardinality(Appended) < MaxHistoryAppends /\ ReportMem(h, s, RowCount + 1)
  \/ \E r \in HistReqs : HandleHistory(r)

SpecHistory == InitHistory /\ [][NextHistory]_vars

-----------------------------------------------------------------------------
(* The connection pool behind query() (src/unnamed/part_001, the variant    *)
(* with max: 1): pool.query checks a connection out for the time of one     *)
(* query and releases it before the query's promise is settled; a query     *)
(* that gets no connection within connectionTimeoutMillis is rejected.      *)

PoolMax == 1

\* the requests whose query holds a pooled connection
PoolConnections == {r \in Reqs : req[r].conn}

\* the clients of /api/history requests that are connected
HistoryConnections == {h \in HistReqs : hist[h].connected}

\* pool.query: the pending query of request r gets a connection
Acquire(r) ==
  /\ req[r].pc \in QueryPcs
  /\ ~req[r].conn
  /\ Cardinality(PoolConnections) < PoolMax
  /\ req' = [req EXCEPT ![r] = [@ EXCEPT !.conn = TRUE, !.heldFor = req[r].pc]]
  /\ UNCHANGED <<now, client_network, cpu, mem, system, cache, hist, variants, ui>>

\* the query of request r runs on its connection, and succeeds or fails
PooledQuery(r) ==
  /\ req[r].conn
  /\ req[r].heldFor = req[r].pc
  /\ \/ SummaryQuery(r)
     \/ NetworkQuery(r)
     \/ CpuQuery(r)
     \/ MemQuery(r)
     \/ SystemQuery(r)
     \/ QueryFails(r)

\* (variant: the connection is kept until the request has been answered)
ReleaseAfterResponse(r) ==
  /\ req[r].conn
  /\ req[r].pc = "done"
  /\ req' = [req EXCEPT ![r] = [@ EXCEPT !.conn = FALSE]]
  /\ UNCHANGED <<now, client_network, cpu, mem, system, cache, hist, variants, ui>>

\* the connection of a finished query goes back to the pool
Release(r) ==
  /\ req[r].conn
  /\ req[r].heldFor # req[r].pc
  /\ req' = [req EXCEPT ![r] = [@ EXCEPT !.conn = FALSE]]
  /\ UNCHANGED <<now, client_network, cpu, mem, system, cache, hist, variants, ui>>

\* connectionTimeoutMillis: the pending query of request r is rejected while
\* all the connections of the pool are checked out
AcquireTimesOut(r) ==
  /\ ~req[r].conn
  /\ Cardinality(PoolConnections) >= PoolMax
  /\ QueryFails(r)

\* the results are combined once the promise of the last query is settled
PooledMerge(r) == ~req[r].conn /\ Merge(r)

HandlePooled(r, PL) ==
  \/ \E pl \in PL : StartRequest(r, pl[1], pl[2])
  \/ Acquire(r)
  \/ PooledQuery(r)
  \/ Release(r)
  \/ AcquireTimesOut(r)
  \/ PooledMerge(r)

(* Pool scenario: two /api/stats requests and one /api/history request,     *)
(* concurrent or one after the other, on the store of the two known hosts.  *)
NextPool ==
  \/ \E r \in Reqs : HandlePooled(r, {<<1, DefaultLimit>>})
  \/ \E h \in HistReqs : HandleHistory(h)

SpecPool == InitFamilies /\ [][NextPool]_vars

\* the store answers every query it is sent, the pool hands a free
\* connection to a pending query, and the event loop runs every continuation
\* that is ready; nothing is assumed about the connection timeout
PoolFairness ==
  \A r \in Reqs :
    /\ WF_vars(Acquire(r))
    /\ WF_vars(PooledQuery(r))
    /\ WF_vars(Release(r))
    /\ WF_vars(PooledMerge(r))

SpecPoolFair == SpecPool /\ PoolFairness

-----------------------------------------------------------------------------
(* The Dashboard component of the browser: src/src/app/page.tsx, which     *)
(* fetches /api/stats as one array, and the paginated component of          *)
(* src/unnamed/part_003.  A render closes over the state of that render:    *)
(* the callback given to setInterval and the fetchData it calls keep the    *)
(* currentPage and the selectedPC of the render in which the effect ran.    *)
(* Host names are numbered in the ORDER BY host order of the page query.    *)

MaxClientHosts == 11
MaxStatsInFlight == 2
MaxHistoryInFlight == 2

ClientLimit == 10

\* the rows the user clicks on: the second of the list and the last host
ClickedHosts == {2, MaxClientHosts}

ClientTotalPages == (MaxClientHosts + ClientLimit - 1) \div ClientLimit

\* a successful /api/stats response: the whole array for page.tsx; the hosts
\* offset+1 .. offset+limit, the summary and the pagination for the
\* paginated component
StatsResponse(c, page) ==
  LET offset == (page - 1) * ClientLimit
      len == IF MaxClientHosts - offset > ClientLimit THEN ClientLimit
             ELSE IF MaxClientHosts - offset > 0
                  THEN MaxClientHosts - offset ELSE 0
  IN  [data |-> IF c = "v1" THEN [i \in 1..MaxClientHosts |-> i]
                ELSE [i \in 1..len |-> offset + i],
       summary |-> [total |-> MaxClientHosts],
       pagination |->
         [totalHosts |-> MaxClientHosts, totalPages |-> ClientTotalPages,
          currentPage |-> page, limit |-> ClientLimit]]

\* the /api/history requests the component can have pending: for a host
\* that was clicked or was the first of a list, and a chart type
HistoryFetches ==
  (ClickedHosts \cup {(p - 1) * ClientLimit + 1 : p \in 1..ClientTotalPages})
    \X {"cpu", "ram"}

\* the /api/stats requests the component can have pending, each with the
\* currentPage and selectedPC its fetchData closes over
StatsFetches ==
  [currentPage : 1..ClientTotalPages,
   selectedPC : {Null} \cup {Num(q[1]) : q \in HistoryFetches},
   afterClick : BOOLEAN]

\* fetchData called in a closure: one more /api/stats request is pending;
\* afterClick records that a tick started it after the user's last click
FetchStarted(inFlight, closure, tick) ==
  inFlight \cup {[currentPage |-> closure.currentPage,
                  selectedPC |-> closure.selectedPC,
                  afterClick |-> tick /\ ui.lastClicked # Null]}

\* the first effect at mount: initialLoad and setInterval(refreshData, 30000),
\* both in the closure of the first render
Mount ==
  /\ ~ui.mounted
  /\ LET first == [currentPage |-> ui.currentPage, selectedPC |-> ui.selectedPC]
     IN  ui' = [ui EXCEPT
                  !.mounted = TRUE,
                  !.statsInFlight = FetchStarted(@, first, FALSE),
                  !.intervals = @ \cup {first}]
  /\ UNCHANGED <<now, client_network, cpu, mem, system, req, cache, hist, variants>>

\* an interval fires: refreshData, and so fetchData, of the closure the
\* interval was set in
refreshData ==
  /\ ui.mounted
  /\ Cardinality(ui.statsInFlight) < MaxStatsInFlight
  /\ \E closure \in ui.intervals :
       ui' = [ui EXCEPT !.statsInFlight = FetchStarted(@, closure, TRUE)]
  /\ UNCHANGED <<now, client_network, cpu, mem, system, req, cache, hist, variants>>

\* the rest of fetchData once its fetch settles: the response is shown, the
\* selection is set from the closure's selectedPC, and a new selectedPC
\* object runs the history effect; a failed fetch only shows its error
fetchData(f, ok) ==
  /\ f \in ui.statsInFlight
  /\ Cardinality(ui.historyInFlight) < MaxHistoryInFlight
  /\ LET result == StatsResponse(ui.client, f.currentPage)
         data == result.data
         \* the argument of setSelectedPC, Null when it is not called
         set == IF Len(data) = 0 THEN Null
                ELSE IF f.selectedPC = Null THEN Num(data[1])
                ELSE IF \E i \in 1..Len(data) : data[i] = f.selectedPC[1]
                     THEN f.selectedPC
                ELSE Null
     IN  ui' =
           IF ~ok
           THEN [ui EXCEPT !.statsInFlight = @ \ {f}, !.rejected = TRUE]
           ELSE [ui EXCEPT
                   !.statsInFlight = @ \ {f},
                   !.pcs = data,
                   !.pagination =
                     IF ui.client = "paginated"
                     THEN <<result.pagination>> ELSE @,
                   !.summary =
                     IF ui.client = "paginated" THEN <<result.summary>> ELSE @,
                   !.selectedPC = IF set = Null THEN @ ELSE set,
                   !.historyInFlight =
                     IF set = Null THEN @
                     ELSE @ \cup {<<set[1], ui.chartType>>}]
  /\ UNCHANGED <<now, client_network, cpu, mem, system, req, cache, hist, variants>>

\* a click on another row of the list: setSelectedPC(pc), and
\* fetchHistory(host, type) called by the history effect of the next render
setSelectedPC(h) ==
  /\ \E i \in 1..Len(ui.pcs) : ui.pcs[i] = h
  /\ ui.selectedPC # Num(h)
  /\ Cardinality(ui.historyInFlight) < MaxHistoryInFlight
  /\ ui' = [ui EXCEPT
              !.selectedPC = Num(h),
              !.lastClicked = Num(h),
              !.statsInFlight = {[f EXCEPT !.afterClick = FALSE] : f \in @},
              !.historyInFlight = @ \cup {<<h, ui.chartType>>}]
  /\ UNCHANGED <<now, client_network, cpu, mem, system, req, cache, hist, variants>>

\* a click on the other chart type button of the selected host
setChartType(t) ==
  /\ ui.selectedPC # Null
  /\ ui.chartType # t
  /\ Cardinality(ui.historyInFlight) < MaxHistoryInFlight
  /\ ui' = [ui EXCEPT
              !.chartType = t,
              !.historyInFlight = @ \cup {<<ui.selectedPC[1], t>>}]
  /\ UNCHANGED <<now, client_network, cpu, mem, system, req, cache, hist, variants>>

\* fetchHistory once its fetch settles: setHistory(data), whatever is
\* selected by then; a rejected fetch is only logged
fetchHistory(q, ok) ==
  /\ q \in ui.historyInFlight
  /\ ui' = IF ok
           THEN [ui EXCEPT !.historyInFlight = @ \ {q}, !.history = q]
           ELSE [ui EXCEPT !.historyInFlight = @ \ {q}, !.rejected = TRUE]
  /\ UNCHANGED <<now, client_network, cpu, mem, system, req, cache, hist, variants>>

\* a click on a page button of the paginated component: the effect on
\* [currentPage] clears the interval of its previous run, then runs
\* initialLoad and sets a new interval in the closure of the new render
setCurrentPage(p) ==
  /\ ui.client = "paginated"
  /\ ui.pagination # <<>>
  /\ p \in 1..ui.pagination[1].totalPages
  /\ p # ui.currentPage
  /\ Cardinality(ui.statsInFlight) < MaxStatsInFlight
  /\ LET next == [currentPage |-> p, selectedPC |-> ui.selectedPC]
     IN  ui' = [ui EXCEPT
                  !.currentPage = p,
                  !.intervals =
                    {i \in @ : i.currentPage # ui.currentPage} \cup {next},
                  !.statsInFlight = FetchStarted(@, next, FALSE)]
  /\ UNCHANGED <<now, client_network, cpu, mem, system, req, cache, hist, variants>>

InitClient ==
  /\ now = 0
  /\ client_network = KnownHosts
  /\ cpu = {}
  /\ mem = {}
  /\ system = {}
  /\ req = [r \in Reqs |-> IdleReq]
  /\ cache = NoCache
  /\ hist = [r \in HistReqs |-> IdleHist]
  /\ variants = NoVariants
  /\ ui \in {[IdleUi EXCEPT !.client = c] : c \in {"v1", "paginated"}}

NextClient ==
  \/ Mount
  \/ refreshData
  \/ \E f \in StatsFetches, ok \in BOOLEAN : fetchData(f, ok)
  \/ \E h \in ClickedHosts : setSelectedPC(h)
  \/ \E t \in {"cpu", "ram"} : setChartType(t)
  \/ \E q \in HistoryFetches, ok \in BOOLEAN : fetchHistory(q, ok)
  \/ \E p \in 1..ClientTotalPages : setCurrentPage(p)

SpecClient == InitClient /\ [][NextClient]_vars

-----------------------------------------------------------------------------
(* Properties of the /api/stats responses *)

Ok(r) == req[r].resp.status = 200
Data(r) == req[r].resp.body.data
HostnamesOf(data) == [i \in 1..Len(data) |-> data[i].hostname]
Entries(r) == {Data(r)[i] : i \in 1..Len(Data(r))}

\* C1 as stated: in every successful response a host whose lastUpdate is more
\* than 5 minutes older than the arrival of the request is "offline" and one
\* whose lastUpdate is newer than that is "online".
StatusFollowsRequestTime ==
  \A r \in Reqs : Ok(r) =>
    \A e \in Entries(r) :
      /\ (req[r].arrival - e.lastUpdate > 300000 => e.status = "offline")
      /\ (req[r].arrival - e.lastUpdate < 300000 => e.status = "online")

\* C1 amended: in every successful response a host is "offline" when its
\* lastUpdate is 300000 ms or more older than the moment the handler combined
\* the query results (after all the store round-trips of the request), and
\* "online" when it is newer than that.
StatusFollowsMergeTime ==
  \A r \in Reqs : Ok(r) =>
    \A e \in Entries(r) :
      /\ (req[r].mergedAt - e.lastUpdate >= 300000 => e.status = "offline")
      /\ (req[r].mergedAt - e.lastUpdate < 300000 => e.status = "online")

\* a response, combined some time after the request arrived, that reports a
\* host offline at exactly 5 minutes of age next to an online host
StatusWitness ==
  \E r \in Reqs :
    /\ Ok(r)
    /\ req[r].mergedAt > req[r].arrival
    /\ \E e, f \in Entries(r) :
         /\ e.status = "offline" /\ req[r].mergedAt - e.lastUpdate = 300000
         /\ f.status = "online"

\* the distinct hosts S in the order of the host column
SortedHosts(S) ==
  CHOOSE s \in Perms(S) : \A i \in 1..(Len(s) - 1) : HostLess(s[i], s[i + 1])

\* C2: the hostnames of data are, in this order, the slice at offset
\* (page-1)*limit, of length at most limit, of the distinct hosts the store
\* held when the page was queried, sorted by hostname ascending.
DataIsSortedSlice ==
  \A r \in Reqs : Ok(r) =>
    HostnamesOf(Data(r)) =
      LimitOffset(SortedHosts(req[r].pageHosts), req[r].limit, req[r].offset)

\* C3: pagination.totalPages is ceil(totalHosts / limit), that is the only
\* integer tp with (tp - 1) * limit < totalHosts <= tp * limit, and data holds
\* at most limit entries.
PaginationArithmetic ==
  \A r \in Reqs : Ok(r) =>
    LET pg == req[r].resp.body.pagination IN
      /\ (pg.totalPages - 1) * req[r].limit < pg.totalHosts
      /\ pg.totalHosts <= pg.totalPages * req[r].limit
      /\ Len(Data(r)) <= req[r].limit

\* three hosts in pages of two: two pages, the first one full
PaginationWitness ==
  \E r \in Reqs :
    /\ Ok(r)
    /\ req[r].limit = 2
    /\ req[r].resp.body.pagination.totalHosts = 3
    /\ req[r].resp.body.pagination.totalPages = 2
    /\ Len(Data(r)) = 2

\* x is a row of table, and no row of the same host in table is newer
IsNewest(x, table) ==
  /\ x \in table
  /\ \A y \in table : y.host = x.host => y.time <= x.time

OneRowPerHost(res) ==
  \A i, j \in 1..Len(res) : res[i].host = res[j].host => i = j

CpuTotal == {x \in cpu : x.cpu = "cpu-total"}

\* the fields of entry e that come from family rows are those of the row of
\* e's host in the family's result, and are absent when there is no such row
DerivedFrom(e, q) ==
  /\ \E n \in Range(q.networkRes) :
       /\ n.host = e.hostname
       /\ e.ip = n.ip /\ e.mac = n.mac /\ e.lastUpdate = n.time
  /\ \/ /\ "cpu" \notin DOMAIN e
        /\ \A c \in Range(q.cpuRes) : c.host # e.hostname
     \/ /\ "cpu" \in DOMAIN e
        /\ \E c \in Range(q.cpuRes) :
             /\ c.host = e.hostname
             /\ e.cpu = MathRound(c.cpu_active, Scale)
             /\ e.cpuBreakdown.user = MathRound(c.usage_user, Scale)
  /\ \/ /\ "ram" \notin DOMAIN e
        /\ \A m \in Range(q.memRes) : m.host # e.hostname
     \/ /\ "ram" \in DOMAIN e
        /\ \E m \in Range(q.memRes) :
             /\ m.host = e.hostname
             /\ e.ram = MathRound(m.used_percent, Scale)
             /\ e.ramTotal = m.total /\ e.ramUsed = m.used
  /\ \/ /\ "uptime" \notin DOMAIN e
        /\ \A y \in Range(q.systemRes) : y.host # e.hostname
     \/ /\ "uptime" \in DOMAIN e
        /\ \E y \in Range(q.systemRes) :
             /\ y.host = e.hostname
             /\ e.uptime = UptimeString(y.uptime)
             /\ e.load.l5 = ToFixed2(y.load5)

\* C4: each family's query returns, for every host of the page, one row, and
\* that row is a newest row of the host in the family's table (for CPU among
\* the cpu-total rows) at the moment the query runs; the fields of the host
\* summaries are derived from exactly these rows.
LatestRowContributes ==
  [][\A r \in Reqs :
       /\ (req[r].pc = "network" /\ req'[r].pc = "cpu") =>
            /\ OneRowPerHost(req'[r].networkRes)
            /\ \A x \in Range(req'[r].networkRes) : IsNewest(x, client_network)
       /\ (req[r].pc = "cpu" /\ req'[r].pc = "mem") =>
            /\ OneRowPerHost(req'[r].cpuRes)
            /\ \A c \in Range(req'[r].cpuRes) :
                 \E x \in CpuTotal : CpuProjection(x) = c /\ IsNewest(x, CpuTotal)
       /\ (req[r].pc = "mem" /\ req'[r].pc = "system") =>
            /\ OneRowPerHost(req'[r].memRes)
            /\ \A x \in Range(req'[r].memRes) : IsNewest(x, mem)
       /\ (req[r].pc = "system" /\ req'[r].pc = "merge") =>
            /\ OneRowPerHost(req'[r].systemRes)
            /\ \A x \in Range(req'[r].systemRes) : IsNewest(x, system)
       /\ (req[r].pc = "merge" /\ req'[r].pc = "done") =>
            \A i \in 1..Len(req'[r].resp.body.data) :
              DerivedFrom(req'[r].resp.body.data[i], req[r])
    ]_vars

\* a host summary whose cpu comes from the newer of two cpu-total rows of the
\* host that carry different values
LatestRowWitness ==
  \E r \in Reqs :
    /\ Ok(r)
    /\ \E e \in Entries(r) : \E x, y \in CpuTotal :
         /\ x.host = e.hostname /\ y.host = e.hostname
         /\ x.time < y.time
         /\ "cpu" \in DOMAIN e
         /\ e.cpu = MathRound(100 * Scale - y.usage_idle, Scale)
         /\ e.cpu # MathRound(100 * Scale - x.usage_idle, Scale)

NetworkHosts == {x.host : x \in client_network}

\* the time of the newest client_network row of host h
LatestTime(h) ==
  CHOOSE t \in {x.time : x \in {y \in client_network : y.host = h}} :
    \A x \in client_network : x.host = h => x.time <= t

\* C5: the summary query counts as total the distinct hosts of client_network
\* and as online those whose newest row is less than 5 minutes old when the
\* query runs; every successful response carries these two numbers and
\* offline = total - online, so 0 <= online <= total.
SummaryCounts ==
  [][\A r \in Reqs :
       /\ (req[r].pc = "summary" /\ req'[r].pc = "network") =>
            /\ req'[r].totalHosts = Cardinality(NetworkHosts)
            /\ req'[r].onlineHosts =
                 Cardinality({h \in NetworkHosts : now - LatestTime(h) < 300000})
       /\ req'[r].resp.status = 200 =>
            LET sm == req'[r].resp.body.summary IN
              /\ sm.total = req'[r].totalHosts
              /\ sm.online = req'[r].onlineHosts
              /\ sm.offline = sm.total - sm.online
              /\ 0 <= sm.online /\ sm.online <= sm.total
              /\ sm.online + sm.offline = sm.total
    ]_vars

\* a response that counts one online host and one host exactly 5 minutes old
SummaryCountsWitness ==
  \E r \in Reqs :
    /\ Ok(r)
    /\ req[r].resp.body.summary.total = 2
    /\ req[r].resp.body.summary.online = 1
    /\ req[r].resp.body.summary.offline = 1
    /\ \E x \in client_network : x.time = 0
    /\ req[r].arrival = 300000

\* rows older than 5 minutes at time t
StaleAt(rows, t) == {x \in rows : t - x.time > 300000}

\* rows older than 5 minutes the agents could have written
StaleCpuRows(t) ==
  {[host |-> h, time |-> t - 300000 - d, cpu |-> "cpu-total",
    usage_idle |-> s.usage_idle, usage_user |-> s.usage_user,
    usage_system |-> s.usage_system, usage_iowait |-> s.usage_iowait] :
     h \in Hosts, s \in CpuSamples, d \in {1, 150000}}

StaleMemRows(t) ==
  {[host |-> h, time |-> t - 300000 - d, used_percent |-> s.used_percent,
    available_percent |-> s.available_percent, total |-> s.total,
    used |-> s.used] :
     h \in Hosts, s \in MemSamples, d \in {1, 150000}}

\* C6: the avgCpu and avgRam a request computes are the ones it would compute
\* if any of the rows older than 5 minutes were removed from, or any such row
\* were added to, the cpu and mem tables (a change is a removal and an
\* addition).
StaleRowsDoNotMoveAverages ==
  [][\A r \in Reqs :
       (req[r].pc = "summary" /\ req'[r].pc = "network") =>
         /\ \A gone \in SUBSET StaleAt(cpu, now) :
            \A added \in {{}} \cup {{x} : x \in StaleCpuRows(now)} :
              req'[r].avgCpu =
                RoundAvg(SummaryRowOf(client_network, (cpu \ gone) \cup added,
                                      mem, now).avg_cpu)
         /\ \A gone \in SUBSET StaleAt(mem, now) :
            \A added \in {{}} \cup {{x} : x \in StaleMemRows(now)} :
              req'[r].avgRam =
                RoundAvg(SummaryRowOf(client_network, cpu,
                                      (mem \ gone) \cup added, now).avg_ram)
    ]_vars

\* a response whose avgCpu is that of the fresh cpu-total row alone although
\* an older row with another value is in the table
StaleRowsWitness ==
  \E r \in Reqs :
    /\ Ok(r)
    /\ "avgCpu" \in DOMAIN req[r].resp.body.summary
    /\ \E x, y \in CpuTotal :
         /\ req[r].arrival - x.time > 300000
         /\ y.time = req[r].arrival
         /\ x.usage_idle # y.usage_idle
         /\ req[r].resp.body.summary.avgCpu
              = MathRound(100 * Scale - y.usage_idle, Scale)
         /\ req[r].resp.body.summary.avgCpu
              # MathRound(100 * Scale - x.usage_idle, Scale)

\* C10: a request one of whose queries failed ends with status 500 and a body
\* that holds the error and nothing else, whatever the earlier queries of the
\* request returned; no other request ends with 500.
FailureReturnsOnlyError ==
  \A r \in Reqs :
    /\ req[r].failedAt # "" =>
         /\ req[r].pc = "done"
         /\ req[r].resp.status = 500
         /\ DOMAIN req[r].resp.body = {"error"}
    /\ req[r].resp.status = 500 => req[r].failedAt # ""
    /\ req[r].resp.status = 200 => "error" \notin DOMAIN req[r].resp.body

\* the system query fails after the page of hosts has been fetched
FailureWitness ==
  \E r \in Reqs :
    /\ req[r].failedAt = "system"
    /\ req[r].networkRes # <<>>
    /\ req[r].resp.status = 500

-----------------------------------------------------------------------------
(* Properties of the response cache *)

\* request r is started by this step
Starts(r) == req[r].pc = "idle" /\ req'[r].pc # "idle"

QualifiesReq(q) == q.page = 1 /\ q.limit = 10

\* C7 as stated: of two successfully answered page=1, limit=10 requests that
\* arrived less than 15 seconds apart, the second returns the payload of the
\* first and has queried nothing.
SecondRequestWithin15sIsCached ==
  \A r1, r2 \in Reqs :
    ( /\ req[r1].resp.status = 200 /\ req[r2].resp.status = 200
      /\ QualifiesReq(req[r1]) /\ QualifiesReq(req[r2])
      /\ req[r1].arrival < req[r2].arrival
      /\ req[r2].arrival - req[r1].arrival < 15000 )
    => (req[r2].resp = req[r1].resp /\ req[r2].queries = 0)

\* C7 amended: a page=1, limit=10 request that arrives less than 15 seconds
\* after the cache entry was stored is answered at once with exactly the
\* stored payload, issues no query and leaves the entry as it is.
CacheHitServesStoredPayload ==
  [][\A r \in Reqs :
       ( /\ Starts(r)
         /\ QualifiesReq(req'[r])
         /\ cache # NoCache
         /\ now - cache.timestamp < 15000 )
       => /\ req'[r].pc = "done"
          /\ req'[r].resp = [status |-> 200, body |-> cache.data]
          /\ req'[r].queries = 0
          /\ cache' = cache
    ]_vars

\* the second request is answered without a query with the payload the first
\* one computed, although a row was appended to the store in between
CacheHitWitness ==
  /\ req[1].pc = "done" /\ req[1].queries = 5 /\ req[1].resp.status = 200
  /\ req[2].pc = "done" /\ req[2].queries = 0
  /\ req[2].resp = req[1].resp
  /\ req[2].arrival > req[1].mergedAt
  /\ \E x \in client_network :
       x.time > req[1].mergedAt /\ x.time <= req[2].arrival

\* C8: a page=1, limit=10 request that arrives more than 15 seconds after the
\* entry was stored starts the queries; its combined result is stored with
\* the time of the combination and is what the request returns; and a
\* request is answered from the cache only by an entry at most 15 s old.
ExpiredEntryIsRecomputed ==
  [][\A r \in Reqs :
       /\ ( /\ Starts(r)
            /\ QualifiesReq(req'[r])
            /\ cache # NoCache
            /\ now - cache.timestamp > 15000 )
          => (req'[r].pc = "summary" /\ req'[r].resp = NoResponse)
       /\ (Starts(r) /\ req'[r].pc = "done")
          => /\ cache # NoCache
             /\ now - cache.timestamp <= 15000
             /\ req'[r].resp.body = cache.data
       /\ (req[r].pc = "merge" /\ req'[r].pc = "done" /\ QualifiesReq(req[r]))
          => /\ req'[r].resp.status = 200
             /\ cache' = [data |-> req'[r].resp.body, timestamp |-> now]
    ]_vars

\* the second request arrives 22.5 s after the first one stored its result,
\* queries the store and replaces the entry
ExpiredEntryWitness ==
  /\ req[1].pc = "done" /\ req[1].queries = 5 /\ req[1].resp.status = 200
  /\ QualifiesReq(req[1]) /\ QualifiesReq(req[2])
  /\ req[2].pc = "done" /\ req[2].queries = 5 /\ req[2].resp.status = 200
  /\ req[2].arrival - req[1].mergedAt > 15000
  /\ cache = [data |-> req[2].resp.body, timestamp |-> req[2].mergedAt]

\* C9: a request with a page other than 1 or a limit other than 10 starts the
\* queries whatever the cache holds, no step of such a request changes the
\* cache slot, and the slot only ever holds a page=1, limit=10 result.
NonQualifyingBypassesCache ==
  [][\A r \in Reqs :
       /\ (Starts(r) /\ ~QualifiesReq(req'[r]))
          => (req'[r].pc = "summary" /\ req'[r].resp = NoResponse)
       /\ (req'[r] # req[r] /\ ~QualifiesReq(req'[r])) => cache' = cache
       /\ (req'[r].pc = "done" /\ ~QualifiesReq(req'[r])) => req'[r].queries >= 1
       /\ cache' # NoCache =>
            /\ cache'.data.pagination.currentPage = 1
            /\ cache'.data.pagination.limit = 10
    ]_vars

\* a request for page 2 with limit 1 that arrived while the entry was fresh
\* has queried the store, and the entry is still the one of the first request
NonQualifyingWitness ==
  /\ req[1].pc = "done" /\ QualifiesReq(req[1]) /\ req[1].queries = 5
  /\ cache = [data |-> req[1].resp.body, timestamp |-> req[1].mergedAt]
  /\ req[2].pc = "done" /\ req[2].page = 2 /\ req[2].limit = 1
  /\ req[2].arrival >= req[1].mergedAt
  /\ req[2].arrival - req[1].mergedAt < 15000
  /\ req[2].queries = 5 /\ req[2].resp.status = 200
  /\ req[2].resp.body # cache.data

-----------------------------------------------------------------------------
(* Properties of the /api/history responses *)

\* C11: a request to /api/history whose host parameter is absent or empty is
\* answered with status 400 and an error body, and the handler opens no
\* store connection and issues no query for it.
HostlessIsRefused ==
  \A r \in HistReqs :
    (hist[r].pc # "idle" /\ hist[r].host \in {NoParam, Param("")}) =>
      /\ hist[r].pc = "done"
      /\ hist[r].resp = [status |-> 400, body |-> [error |-> "Host required"]]
      /\ hist[r].connects = 0
      /\ ~hist[r].connected
      /\ hist[r].queries = 0

\* a request with an empty host parameter that has been answered
HostlessWitness ==
  \E r \in HistReqs :
    hist[r].pc = "done" /\ hist[r].host = Param("") /\ hist[r].resp.status = 400

HistOk(r) == hist[r].pc = "done" /\ hist[r].resp.status = 200

\* C12: a successful history response holds at most 20 points; they are the
\* host's most recent observations of the metric at the time of the query
\* (all of them when there are fewer than 20, and no observation left out is
\* more recent than one returned), in order of non-decreasing observation
\* time; a host without observations gets an empty sequence, with status 200.
HistoryIsLatest20Ascending ==
  \A r \in HistReqs : HistOk(r) =>
    LET rows == hist[r].rows
        found == hist[r].candidates
        points == hist[r].resp.body
        returned == {HistoryProjection(hist[r].type, x) : x \in found}
    IN /\ Len(points) <= 20
       /\ Len(points) = Len(rows)
       /\ Len(rows) = Min(20, Cardinality(found))
       /\ \A i \in 1..Len(rows) :
            /\ rows[i] \in returned
            /\ points[i] = HistoryPoint(rows[i])
       /\ \A i \in 1..(Len(rows) - 1) : rows[i].time <= rows[i + 1].time
       /\ \A x \in found :
            (\E i \in 1..Len(rows) : rows[i].time < x.time) =>
              \E j \in 1..Len(rows) : rows[j] = HistoryProjection(hist[r].type, x)
       /\ (found = {} => points = <<>>)

\* a host with 22 observations, the newest appended while the request was
\* waiting for its connection, gets the 20 newest
HistoryWitness ==
  \E r \in HistReqs :
    /\ HistOk(r)
    /\ Cardinality(hist[r].candidates) > 20
    /\ Len(hist[r].resp.body) = 20
    /\ hist[r].rows[20].time >= HistoryNow
    /\ hist[r].rows[1].time > HistoryStep

-----------------------------------------------------------------------------
(* Further properties of the /api/stats responses *)

\* C13: a successful response with an empty data array (a page beyond the
\* last host) carries the summary (total, online, offline, avgCpu, avgRam)
\* and the pagination (totalHosts, totalPages, currentPage, limit) computed
\* for the request, exactly as the response of a non-empty page does.
EmptyPageCarriesFullEnvelope ==
  \A r \in Reqs : (Ok(r) /\ Data(r) = <<>>) =>
    /\ req[r].resp.body.summary = SuccessResponse(req[r], now).body.summary
    /\ req[r].resp.body.pagination = SuccessResponse(req[r], now).body.pagination

IdentityKeys == {"hostname", "ip", "mac", "status", "lastUpdate"}
CpuKeys == {"cpu", "cpuBreakdown"}
MemKeys == {"ram", "ramAvailablePercent", "ramTotal", "ramUsed"}
SystemKeys == {"uptime", "load"}

InResult(res, h) == \E i \in 1..Len(res) : res[i].host = h

\* C14: a request that meets no store failure succeeds, and every host of its
\* page appears with its identity fields and a status; the fields of a family
\* are absent from the entry of a host that has no row in that family, and
\* the fields of the families in which the host has a row are present.
MissingFamilyLeavesFieldsAbsent ==
  \A r \in Reqs :
    /\ (req[r].pc = "done" /\ req[r].failedAt = "") => Ok(r)
    /\ Ok(r) =>
         /\ {e.hostname : e \in Entries(r)} = Hostnames(r)
         /\ \A e \in Entries(r) :
              /\ IdentityKeys \subseteq DOMAIN e
              /\ e.status \in {"online", "offline"}
              /\ (\A x \in CpuTotal : x.host # e.hostname) => CpuKeys \cap DOMAIN e = {}
              /\ (\A x \in mem : x.host # e.hostname) => MemKeys \cap DOMAIN e = {}
              /\ (\A x \in system : x.host # e.hostname) => SystemKeys \cap DOMAIN e = {}
              /\ InResult(req[r].cpuRes, e.hostname) => CpuKeys \subseteq DOMAIN e
              /\ InResult(req[r].memRes, e.hostname) => MemKeys \subseteq DOMAIN e
              /\ InResult(req[r].systemRes, e.hostname) => SystemKeys \subseteq DOMAIN e

\* a response with a host that has cpu fields but neither memory nor system
\* fields, next to a host that has no family row at all
MissingFamilyWitness ==
  \E r \in Reqs :
    /\ Ok(r)
    /\ \E e, f \in Entries(r) :
         /\ CpuKeys \subseteq DOMAIN e
         /\ (MemKeys \cup SystemKeys) \cap DOMAIN e = {}
         /\ DOMAIN f = IdentityKeys
         /\ \A x \in mem \cup system : x.host # e.hostname

\* C15: while the set of hosts in the store is the same, the hostnames
\* returned for a given page and limit are the same in every request,
\* whatever observations were appended between or during the requests.
PaginationIsStable ==
  \A r1, r2 \in Reqs :
    (/\ Ok(r1) /\ Ok(r2)
     /\ req[r1].page = req[r2].page
     /\ req[r1].limit = req[r2].limit
     /\ req[r1].pageHosts = req[r2].pageHosts) =>
      HostnamesOf(Data(r1)) = HostnamesOf(Data(r2))

\* two requests for the same page of the same hosts, the second one seeing
\* newer observations of them
PaginationStableWitness ==
  \E r1, r2 \in Reqs :
    /\ Ok(r1) /\ Ok(r2)
    /\ req[r1].page = req[r2].page
    /\ req[r1].limit = req[r2].limit
    /\ req[r1].pageHosts = req[r2].pageHosts
    /\ Len(Data(r1)) = 2
    /\ \E i \in 1..2 : Data(r1)[i].lastUpdate < Data(r2)[i].lastUpdate

ComparedKeys ==
  {"hostname", "ip", "mac", "status", "lastUpdate", "cpu", "ram", "ramTotal",
   "ramUsed", "uptime"}

Restrict(e, K) == [k \in DOMAIN e \cap K |-> e[k]]

EntryOf(data, h) == CHOOSE e \in Range(data) : e.hostname = h

\* no table holds two rows of one host (and cpu) with the same time, so that
\* every "latest row" is determined
NoTies ==
  /\ \A x, y \in client_network : (x.host = y.host /\ x.time = y.time) => x = y
  /\ \A x, y \in cpu : (x.host = y.host /\ x.cpu = y.cpu /\ x.time = y.time) => x = y
  /\ \A x, y \in mem : (x.host = y.host /\ x.time = y.time) => x = y
  /\ \A x, y \in system : (x.host = y.host /\ x.time = y.time) => x = y

\* C16: on the same store contents (with determined latest rows) and at the
\* same time, with all hosts on page 1, the unpaginated variant and the two
\* paginated variants return the same hosts and for each host the same
\* hostname, ip, mac, status, lastUpdate, cpu, ram, ramTotal, ramUsed and
\* uptime, and the two variants that return load return the same load.
VariantsAgree ==
  (variants # NoVariants /\ NoTies) =>
    LET d1 == variants.v1.body
        d2 == variants.v2.body.data
        d3 == variants.v3.body.data
        names == {e.hostname : e \in Range(d1)}
    IN /\ {e.hostname : e \in Range(d2)} = names
       /\ {e.hostname : e \in Range(d3)} = names
       /\ \A h \in names :
            /\ Restrict(EntryOf(d1, h), ComparedKeys) = Restrict(EntryOf(d2, h), ComparedKeys)
            /\ Restrict(EntryOf(d1, h), ComparedKeys) = Restrict(EntryOf(d3, h), ComparedKeys)
            /\ Restrict(EntryOf(d1, h), {"load"}) = Restrict(EntryOf(d3, h), {"load"})

\* the sum over the hosts H of the mean of column col of the host's rows, as
\* the rational <<numerator, denominator>>
RECURSIVE SumOfHostMeans(_, _, _)
SumOfHostMeans(H, rows, col) ==
  IF H = {} THEN <<0, 1>>
  ELSE LET h == CHOOSE x \in H : TRUE
           own == {x \in rows : x.host = h}
           rest == SumOfHostMeans(H \ {h}, rows, col)
       IN <<SumOf(own, col) * rest[2] + rest[1] * Cardinality(own),
            Cardinality(own) * rest[2]>>

\* the rounded average in which every host of rows weighs the same
AverageAcrossHosts(rows, col) ==
  IF rows = {} THEN 0
  ELSE LET H == {x.host : x \in rows}
           s == SumOfHostMeans(H, rows, col)
       IN MathRound(s[1], s[2] * Cardinality(H) * Scale)

\* C17: the avgCpu (avgRam) a request computes is the average across the
\* hosts that have a cpu-total (memory) row within the 5 minutes before the
\* query: each such host contributes the same weight, whatever the number of
\* rows it has in the window.
AveragesWeighHostsEqually ==
  [][\A r \in Reqs :
       (req[r].pc = "summary" /\ req'[r].pc = "network" /\ req'[r].failedAt = "") =>
         /\ req'[r].avgCpu =
              AverageAcrossHosts(
                {CpuProjection(x) : x \in {y \in CpuTotal : now - y.time < 300000}},
                "cpu_active")
         /\ req'[r].avgRam =
              AverageAcrossHosts({y \in mem : now - y.time < 300000}, "used_percent")
    ]_vars

\* C18: data holds exactly one entry for each host of the identity page and
\* no other entry, so data.length is the number of identity rows; the family
\* results hold rows of the page's hosts only, and the family fields of an
\* entry come from a row of its own host.
DataIsThePageHosts ==
  \A r \in Reqs :
    /\ \A res \in {req[r].cpuRes, req[r].memRes, req[r].systemRes} :
         HostsOf(res) \subseteq Hostnames(r)
    /\ Ok(r) =>
         /\ Len(Data(r)) = Len(req[r].networkRes)
         /\ Len(Data(r)) = Cardinality(Hostnames(r))
         /\ {e.hostname : e \in Entries(r)} = Hostnames(r)
         /\ \A e \in Entries(r) :
              /\ "cpu" \in DOMAIN e =>
                   \E x \in CpuTotal :
                     x.host = e.hostname /\ CpuFields(CpuProjection(x)) = Restrict(e, CpuKeys)
              /\ "ram" \in DOMAIN e =>
                   \E x \in mem : x.host = e.hostname /\ MemFields(x) = Restrict(e, MemKeys)
              /\ "uptime" \in DOMAIN e =>
                   \E x \in system :
                     x.host = e.hostname /\ SystemFields(x) = Restrict(e, SystemKeys)

\* a one-host page whose host has a cpu row, answered while the store held
\* an older cpu row of the host that is not on the page
DataIsThePageHostsWitness ==
  \E r \in Reqs :
    /\ Ok(r)
    /\ Len(Data(r)) = 1
    /\ "cpu" \in DOMAIN Data(r)[1]
    /\ \E x \in CpuTotal : x.host \notin Hostnames(r) /\ x.time < req[r].arrival

\* the entry of the host of the i-th cpu row of request r, with the row's
\* usage_idle in tenths of a percent
IdleOf(r, i) == 100 * Scale - req[r].cpuRes[i].cpu_active
CpuOf(r, i) == EntryOf(Data(r), req[r].cpuRes[i].host).cpu

\* cpu is the integer nearest to 100 - usage_idle, halves rounded up
IsRounded(r, i) ==
  /\ 2 * (Scale * CpuOf(r, i) - (100 * Scale - IdleOf(r, i))) <= Scale
  /\ 2 * (Scale * CpuOf(r, i) - (100 * Scale - IdleOf(r, i))) > -Scale

\* C19 as stated: cpu is 100 - usage_idle of the host's latest cpu-total row
\* rounded to the nearest integer: usage_idle 90 gives 10, usage_idle 100
\* gives 0, and every usage_idle above 100 gives a negative cpu.
CpuIsRoundedAboveHundredNegative ==
  \A r \in Reqs : Ok(r) =>
    \A i \in 1..Len(req[r].cpuRes) :
      /\ IsRounded(r, i)
      /\ IdleOf(r, i) = 90 * Scale => CpuOf(r, i) = 10
      /\ IdleOf(r, i) = 100 * Scale => CpuOf(r, i) = 0
      /\ IdleOf(r, i) > 100 * Scale => CpuOf(r, i) < 0

\* C19 amended: cpu is 100 - usage_idle of the host's latest cpu-total row
\* rounded to the nearest integer (halves up) and never clamped: usage_idle
\* 90 gives 10, usage_idle 100 gives 0, a usage_idle above 100.5 gives a
\* negative cpu, and a usage_idle above 100 but not above 100.5 gives 0.
CpuIsRoundedUnclamped ==
  \A r \in Reqs : Ok(r) =>
    \A i \in 1..Len(req[r].cpuRes) :
      /\ IsRounded(r, i)
      /\ IdleOf(r, i) = 90 * Scale => CpuOf(r, i) = 10
      /\ IdleOf(r, i) = 100 * Scale => CpuOf(r, i) = 0
      /\ 2 * (IdleOf(r, i) - 100 * Scale) > Scale => CpuOf(r, i) < 0
      /\ (IdleOf(r, i) > 100 * Scale /\ 2 * (IdleOf(r, i) - 100 * Scale) <= Scale) =>
           CpuOf(r, i) = 0

\* a response with a host whose usage_idle of 101.6 gives cpu -2 next to a
\* host whose usage_idle of 100.4 gives cpu 0
CpuUnclampedWitness ==
  \E r \in Reqs :
    /\ Ok(r)
    /\ \E i, j \in 1..Len(req[r].cpuRes) :
         /\ IdleOf(r, i) = 1016 /\ CpuOf(r, i) = -2
         /\ IdleOf(r, j) = 1004 /\ CpuOf(r, j) = 0

\* C20: for an uptime of s >= 0 seconds the uptime of the entry is "Dd Hh"
\* with whole numbers D >= 0 and 0 <= H <= 23 such that
\* D*86400 + H*3600 <= s < D*86400 + (H+1)*3600, that is D = floor(s/86400)
\* and H = floor((s mod 86400)/3600), truncated and not rounded.
UptimeIsTruncated ==
  \A r \in Reqs : Ok(r) =>
    \A i \in 1..Len(req[r].systemRes) :
      LET s == req[r].systemRes[i].uptime
          u == EntryOf(Data(r), req[r].systemRes[i].host).uptime
      IN /\ u.days >= 0
         /\ 0 <= u.hours /\ u.hours <= 23
         /\ u.days * 86400 + u.hours * 3600 <= s
         /\ s < u.days * 86400 + (u.hours + 1) * 3600

\* a response with a host up for one second less than a day, shown as 0d 23h,
\* next to a host up for three years
UptimeWitness ==
  \E r \in Reqs :
    /\ Ok(r)
    /\ \E i, j \in 1..Len(req[r].systemRes) :
         /\ req[r].systemRes[i].uptime = 86399
         /\ EntryOf(Data(r), req[r].systemRes[i].host).uptime = [days |-> 0, hours |-> 23]
         /\ req[r].systemRes[j].uptime = 94694399
         /\ EntryOf(Data(r), req[r].systemRes[j].host).uptime = [days |-> 1095, hours |-> 23]

ZeroLoad == [text |-> "fixed", hundredths |-> 0]

\* C21: a request that meets no store failure succeeds, and in its response
\* a load average that is NULL in the host's latest system row is "0.00";
\* no load of the response is "NaN".
NullLoadIsZero ==
  \A r \in Reqs :
    /\ (req[r].pc = "done" /\ req[r].failedAt = "") => Ok(r)
    /\ Ok(r) =>
         /\ \A i \in 1..Len(req[r].systemRes) :
              LET row == req[r].systemRes[i]
                  load == EntryOf(Data(r), row.host).load
              IN /\ row.load1 = Null => load.l1 = ZeroLoad
                 /\ row.load5 = Null => load.l5 = ZeroLoad
                 /\ row.load15 = Null => load.l15 = ZeroLoad
         /\ \A e \in Entries(r) :
              "load" \in DOMAIN e =>
                \A k \in {"l1", "l5", "l15"} : e.load[k].text # "NaN"

-----------------------------------------------------------------------------
(* Properties of the store connections *)

\* C22: at every moment the store connections open for the requests in
\* flight, of /api/stats and of /api/history together, number at most the
\* maximum of the pool.
ConnectionsWithinPoolMax ==
  Cardinality(PoolConnections) + Cardinality(HistoryConnections) <= PoolMax

\* the number of queries a request has issued when it is about to issue the
\* query of pc (or to merge)
QueriesBefore(pc) ==
  CASE pc = "summary" -> 0
    [] pc = "network" -> 1
    [] pc = "cpu" -> 2
    [] pc = "mem" -> 3
    [] pc = "system" -> 4
    [] pc = "merge" -> 5

\* C23: a handler issues each of its queries at most once and none after a
\* failed one: an /api/stats request has issued exactly the queries that
\* precede its position, a failed query is the last one it issued, and an
\* /api/history request connects at most once and queries at most once.
NothingIsRetried ==
  /\ \A r \in Reqs :
       /\ req[r].pc \in QueryPcs \cup {"merge"} =>
            req[r].queries = QueriesBefore(req[r].pc) /\ req[r].failedAt = ""
       /\ (req[r].pc = "done" /\ req[r].failedAt # "") =>
            /\ req[r].queries = QueriesBefore(req[r].failedAt) + 1
            /\ req[r].resp.status = 500
       /\ (req[r].pc = "done" /\ req[r].failedAt = "") => req[r].queries \in {2, 5}
  /\ \A h \in HistReqs :
       /\ hist[h].connects <= 1
       /\ hist[h].queries <= 1
       /\ hist[h].queries <= hist[h].connects
       /\ (hist[h].result.status = 500 /\ hist[h].queries = 0) => hist[h].connects = 1

\* a stats request that failed at its third query, one that failed waiting
\* for a connection, and a history request whose only query failed
NothingIsRetriedWitness ==
  /\ \E r \in Reqs :
       req[r].pc = "done" /\ req[r].failedAt = "cpu" /\ req[r].queries = 3
  /\ \E r \in Reqs :
       req[r].pc = "done" /\ req[r].failedAt = "summary" /\ req[r].heldFor = ""
  /\ \E h \in HistReqs :
       hist[h].pc = "done" /\ hist[h].resp.status = 500 /\ hist[h].queries = 1

-----------------------------------------------------------------------------
(* Consistency of one /api/stats response *)

CountStatus(data, st) == Cardinality({i \in 1..Len(data) : data[i].status = st})

\* C24: in a successful response whose page holds all the hosts of the
\* store, summary.online is the number of entries of data with status
\* "online" and summary.offline the number with status "offline".
SummaryMatchesStatuses ==
  \A r \in Reqs :
    (Ok(r) /\ req[r].page = 1 /\ Len(Data(r)) = Cardinality(req[r].pageHosts)) =>
      /\ req[r].resp.body.summary.online = CountStatus(Data(r), "online")
      /\ req[r].resp.body.summary.offline = CountStatus(Data(r), "offline")

\* C25: in a successful response data holds at most
\* max(0, pagination.totalHosts - (page - 1) * limit) entries, and a
\* non-empty data never comes with currentPage > totalPages.
PageWithinEnvelope ==
  \A r \in Reqs : Ok(r) =>
    LET pg == req[r].resp.body.pagination
        rest == pg.totalHosts - (req[r].page - 1) * req[r].limit
    IN /\ Len(Data(r)) <= (IF rest > 0 THEN rest ELSE 0)
       /\ Len(Data(r)) > 0 => pg.currentPage <= pg.totalPages

\* C26: under fair scheduling every /api/stats request that has arrived
\* eventually returns a response, with status 200 or 500, whatever the other
\* requests do and with a pool of a single connection.
EveryRequestReturns ==
  \A r \in Reqs :
    (req[r].pc # "idle") ~> (req[r].pc = "done" /\ req[r].resp.status \in {200, 500})

\* a request has been answered with its five queries done while the other
\* request, in the middle of its queries, holds the only connection
EveryRequestReturnsWitness ==
  \E r1, r2 \in Reqs :
    /\ r1 # r2
    /\ Ok(r1) /\ req[r1].queries = 5
    /\ req[r2].conn /\ req[r2].pc = "mem" /\ req[r2].heldFor = "mem"
    /\ Cardinality(PoolConnections) = PoolMax

-----------------------------------------------------------------------------
(* Properties of the Dashboard component *)

\* C28: once no /api/history request is pending (and none was rejected), the
\* history shown for a selected host is the response to the request for the
\* host and the chart type selected now; the response for an earlier
\* selection does not stay on display.
HistoryShownIsLastSelection ==
  (ui.selectedPC # Null /\ ui.historyInFlight = {} /\ ~ui.rejected) =>
    ui.history = <<ui.selectedPC[1], ui.chartType>>

\* C29: in the paginated component, once no /api/stats request is pending
\* (and none was rejected), the list, the summary and the pagination shown
\* are those of the response for currentPage, and at most one interval is
\* set.
PageShownIsCurrentPage ==
  (/\ ui.client = "paginated"
   /\ ui.mounted
   /\ ui.statsInFlight = {}
   /\ ~ui.rejected) =>
    /\ ui.pcs = StatsResponse("paginated", ui.currentPage).data
    /\ ui.pagination = <<StatsResponse("paginated", ui.currentPage).pagination>>
    /\ ui.summary = <<StatsResponse("paginated", ui.currentPage).summary>>
    /\ Cardinality(ui.intervals) <= 1

\* C30: when the response of a refresh tick that fired after the user's last
\* click is shown and its data hold the host clicked, that host is the
\* selected one afterwards: the
\* refresh puts neither the first host of the list nor an earlier selection
\* in its place.
RefreshKeepsSelection ==
  [][\A f \in ui.statsInFlight :
       (/\ fetchData(f, TRUE)
        /\ f.afterClick
        /\ \E i \in 1..Len(ui'.pcs) : ui'.pcs[i] = ui.lastClicked[1])
       => ui'.selectedPC = ui.lastClicked]_vars
====
